---- MODULE Spec2Model ----
(***************************************************************************)
(* 42-connector: the request pipeline of class API (src/src/main.ts).      *)
(*                                                                         *)
(* Time is counted in ticks of 500 ms: a wall-clock second is two ticks,   *)
(* the start cooldown of 1500 ms is three ticks.  Every async function is  *)
(* cut at its awaits: one action is the code that runs between two awaits. *)
(***************************************************************************)
EXTENDS Integers, Sequences, FiniteSets, TLC

\* ------------------------------------------------------------------ bounds
\* Last tick at which the clock may advance while nothing waits on a timer.
MaxTime == 5
\* Ticks the transport may take to answer a call (it may also never answer).
MaxLatency == 1
\* 429 answers the transport gives in one run.
Max429 == 2
\* Non-empty pages of the paged collection (page numbers 1..nPages).
MaxPages == 2
\* Calls the client's owner makes in one run of sequential use.
MaxCalls == 2

\* --------------------------------------------------------------- constants
\* Ticks per wall-clock second (Date.now() / 1000), one tick = 500 ms.
TicksPerSecond == 2
\* this._startCooldown = 1500 (ms), in ticks.
StartCooldown == 3
\* this._cooldownGrowthFactor = 2.
CooldownGrowthFactor == 2
\* The refresh margin 60 * 1000 (ms), in ticks.
RefreshMargin == 120
\* this._accessTokenExpiry = -1 after construction.
InitialExpiry == -1
\* options.timeout ?? Infinity: the model's number for Infinity.
Infinity == 2000000000
\* Date.now() + undefined * 1000: the model's number for NaN (every
\* comparison with NaN is false, see Fresh).
NaN == -2000000000
\* The longest delay setTimeout honours (2^31 - 1 ms), in ticks; a longer
\* one, and one below 1 ms, is replaced by 1 ms.
MaxTimerDelay == 4294967
\* The first tick of the model's clock: Date.now() is far from the epoch,
\* so the limiter's initial bucket 0 is never the current second.
StartTick == 4

\* The client's request slots: calls that may be in flight at once.
Req == {1, 2}
\* The slot of an owner who awaits each call before making the next.
Sequential == {1}
\* The operations of the client: get stands for get, post, put, patch and
\* delete, which differ in the options they pass to _fetch only.
Kinds == {"get", "paged"}

\* HTTP statuses the transport answers with.
Status == {200, 404, 429}
\* expires_in of a granted token, in seconds.
ExpiresIn == {61, 7200}
\* The finite timeout configurations, in ticks (2000 ms).
FiniteTimeouts == {4}
\* maxRequestPerSecond as a fraction num / den: 1/3 (the default), 1, 2.
Rates == {<<1, 3>>, <<1, 1>>, <<2, 1>>}

VARIABLES
    now,                  \* Date.now(), in ticks
    maxRequestPerSecond,  \* RequestLimiter._maxRequestPerSecond, <<num, den>>
    timeout,              \* API._timeout
    nPages,               \* the server's collection: pages 1..nPages are non-empty
    _thisSecond,          \* RequestLimiter._thisSecond
    _requestsThisSecond,  \* RequestLimiter._requestsThisSecond
    _accessToken,         \* API._accessToken
    _accessTokenExpiry,   \* API._accessTokenExpiry
    _cooldown,            \* API._cooldown
    req,                  \* the call frames of each request slot
    tokSeq,               \* tokens the server has granted so far
    sentThisSec,          \* transport calls issued in the current wall-clock second
    limitsThisSec,        \* limit() calls made in the current wall-clock second
    lastCall,             \* tick of the latest transport call, -1 before the first
    left429,              \* 429 answers the transport may still give, or Unlimited
    calls                 \* calls made so far

vars == <<now, maxRequestPerSecond, timeout, nPages, _thisSecond,
          _requestsThisSecond, _accessToken, _accessTokenExpiry, _cooldown,
          req, tokSeq, sentThisSec, limitsThisSec, lastCall, left429, calls>>

\* The transport answers 429 as often as it likes.
Unlimited == -1

\* ------------------------------------------------------------ JSON values
Json(tag, tok, exp, arr) ==
    [tag |-> tag, access_token |-> tok, expires_in |-> exp, arr |-> arr]
\* No json field (the body was not JSON).
Undefined == Json("undefined", 0, 0, <<>>)
\* this._accessToken = null.
Null == Json("null", 0, 0, <<>>)
\* An AccessToken object.
TokenJson(id, e) == Json("token", id, e, <<>>)
\* An error object such as {"error": "invalid_client"}: it has neither
\* access_token nor expires_in nor length.
ErrorJson == Json("error", 0, 0, <<>>)
\* A resource object.
ObjectJson == Json("object", 0, 0, <<>>)
\* A page: an array of items.
ArrayJson(s) == Json("array", 0, 0, s)

\* The items of page p of the collection; item i of page p is 10 * p + i.
PageItems(p, n) ==
    IF p > n THEN <<>>
    ELSE [i \in 1..(IF p % 2 = 1 THEN 2 ELSE 1) |-> 10 * p + i]

\* response.ok of node-fetch: a 2xx status.
HttpOk(status) == status >= 200 /\ status < 300

\* What the server answers on the wire: a status, whether the body parses
\* as JSON, and the value it parses to.
ServerBody(q, status, e) ==
    IF q.frame = "grant"
    THEN IF HttpOk(status) THEN TokenJson(tokSeq + 1, e) ELSE ErrorJson
    ELSE IF ~HttpOk(status) THEN ErrorJson
    ELSE IF q.kind = "paged" THEN ArrayJson(PageItems(q.page, nPages))
    ELSE ObjectJson

\* ------------------------------------------------------------- call frames
NoResult == [t |-> "none", ok |-> FALSE, status |-> 0, json |-> Undefined, err |-> ""]
Envelope(ok, status, json) ==
    [t |-> "resp", ok |-> ok, status |-> status, json |-> json, err |-> ""]
Thrown(e) == [t |-> "error", ok |-> FALSE, status |-> 0, json |-> Undefined, err |-> e]

IdleReq ==
    [kind |-> "none", pc |-> "idle", frame |-> "prot",
     startTime |-> 0, gStart |-> 0, timer |-> 0, issued |-> 0,
     status |-> 0, parses |-> FALSE, body |-> Undefined,
     bearer |-> -1, retries |-> 0, gRetries |-> 0, sent |-> 0, gSent |-> 0,
     last |-> 0, gLast |-> 0,
     page |-> 0, items |-> <<>>, onPage |-> <<>>, pages |-> <<>>, clean |-> TRUE,
     result |-> NoResult]

\* The state of a client after construction, and of the histories kept
\* about it.
Constructed ==
    /\ _thisSecond = 0
    /\ _requestsThisSecond = 0
    /\ _accessToken = Null
    /\ _accessTokenExpiry = InitialExpiry
    /\ _cooldown = StartCooldown
    /\ req = [r \in Req |-> IdleReq]
    /\ tokSeq = 0
    /\ sentThisSec = 0
    /\ limitsThisSec = 0
    /\ lastCall = -1
    /\ calls = 0

Init ==
    /\ now = StartTick
    /\ maxRequestPerSecond \in Rates
    /\ timeout \in FiniteTimeouts \cup {Infinity}
    /\ nPages = 0
    /\ left429 = Max429
    /\ Constructed

\* A client and the collection getPaged reads.
PagedInit ==
    /\ now = StartTick
    /\ maxRequestPerSecond \in Rates
    /\ timeout = Infinity
    /\ nPages \in 0..MaxPages
    /\ left429 = Max429
    /\ Constructed

\* ------------------------------------------------------------ RequestLimiter
Sec(t) == t \div TicksPerSecond

\* Mutant: the comparison is strict.
AtOrOverMax_Strict(count) ==
    count * maxRequestPerSecond[2] > maxRequestPerSecond[1]

\* this._requestsThisSecond >= this._maxRequestPerSecond, the maximum being
\* the fraction num / den.
AtOrOverMax(count) ==
    count * maxRequestPerSecond[2] >= maxRequestPerSecond[1]

\* limit() up to its return or its await: the new bucket, the new count,
\* and whether the caller is suspended until the next second.
limit ==
    IF Sec(now) # _thisSecond
    THEN [thisSecond |-> Sec(now), requests |-> 0, suspend |-> FALSE]
    ELSE [thisSecond |-> _thisSecond,
          requests |-> _requestsThisSecond + 1,
          suspend |-> AtOrOverMax(_requestsThisSecond + 1)]

\* The tick at which setTimeout(resolve, (thisSecond + 1) * 1000 - now) fires.
NextSecond(sec) == (sec + 1) * TicksPerSecond

\* Frame q after its `await this._limiter.limit()` has started.
AfterLimit(q) ==
    [q EXCEPT !.pc = IF limit.suspend THEN "suspended" ELSE "admitted",
              !.timer = IF limit.suspend THEN NextSecond(limit.thisSecond) ELSE 0]

LimiterStep ==
    /\ _thisSecond' = limit.thisSecond
    /\ _requestsThisSecond' = limit.requests
    /\ limitsThisSec' = limitsThisSec + 1

LimiterSame == UNCHANGED <<_thisSecond, _requestsThisSecond, limitsThisSec>>

\* ------------------------------------------------------------------ timers
\* The delay setTimeout uses for a requested delay d: 1 ms (less than a
\* tick) when d is below 1 ms or above the longest delay it honours.
TimerDelay(d) == IF d < 1 \/ d > MaxTimerDelay THEN 0 ELSE d

\* this._timeout - (Date.now() - startTime); Infinity minus anything is Infinity.
Remaining(start) == IF timeout = Infinity THEN Infinity ELSE timeout - (now - start)

\* Mutant: the elapsed time is never found over the timeout.
OverTimeout_Never(duration) == FALSE

\* duration > this._timeout.
OverTimeout(duration) == timeout # Infinity /\ duration > timeout

\* Mutant: every attempt measures from its own beginning.
StartOf_PerAttempt(q) == now

\* The start time of the logical request frame q is running.
StartOf(q) == IF q.frame = "grant" THEN q.gStart ELSE q.startTime
RetriesOf(q) == IF q.frame = "grant" THEN q.gRetries ELSE q.retries
SentOf(q) == IF q.frame = "grant" THEN q.gSent ELSE q.sent
LastOf(q) == IF q.frame = "grant" THEN q.gLast ELSE q.last

\* --------------------------------------------------------------- the token
\* this._accessTokenExpiry > Date.now() + 60 * 1000.
Fresh == _accessTokenExpiry # NaN /\ _accessTokenExpiry > now + RefreshMargin

\* this._accessToken!.x throws a TypeError on null and on undefined.
Dereferenceable(tok) == tok.tag \notin {"null", "undefined"}

\* Date.now() + this._accessToken.expires_in * 1000.
ExpiryOf(tok) ==
    IF tok.tag = "token" THEN now + tok.expires_in * TicksPerSecond ELSE NaN

\* Mutant: the grant request is issued without a call of limit().
EnterFetch_GrantUnlimited(r, q) ==
    /\ req' = [req EXCEPT ![r] =
                 IF Fresh THEN [q EXCEPT !.pc = "tokenReady", !.frame = "prot"]
                 ELSE [q EXCEPT !.pc = "admitted", !.frame = "grant", !.gStart = now,
                                !.gRetries = 0, !.gSent = 0, !.gLast = 0]]
    /\ LimiterSame

\* _fetch of a protected request from its entry to its first await: the
\* freshness check of _updateToken and, when it fails, the grant request's
\* _fetch up to its limit().
EnterFetch(r, q) ==
    IF Fresh
    THEN /\ req' = [req EXCEPT ![r] = [q EXCEPT !.pc = "tokenReady", !.frame = "prot"]]
         /\ LimiterSame
    ELSE /\ req' = [req EXCEPT ![r] =
                      AfterLimit([q EXCEPT !.frame = "grant", !.gStart = now,
                                           !.gRetries = 0, !.gSent = 0,
                                           !.gLast = 0])]
         /\ LimiterStep

\* The slot of a call that has returned or thrown: what the caller holds
\* (the result, and for getPaged what its callback saw) and the frame the
\* call ended in.
Finish(q, res) ==
    [IdleReq EXCEPT !.kind = q.kind, !.pc = "done", !.frame = q.frame,
                    !.result = res, !.page = q.page, !.pages = q.pages,
                    !.onPage = q.onPage, !.clean = q.clean]

\* A frame that ends by throwing: the error reaches the caller of the
\* protected request (a throw inside the grant request rejects _updateToken
\* and with it the protected _fetch, and getPaged catches nothing).
Throw(q, e) == Finish(q, Thrown(e))

\* ----------------------------------------------------------------- actions
\* get / post / put / patch / delete (kind "get") or getPaged (kind "paged").
Call(r, k) ==
    /\ req[r].pc = "idle"
    /\ calls < MaxCalls
    /\ calls' = calls + 1
    /\ EnterFetch(r, [IdleReq EXCEPT !.kind = k, !.startTime = now,
                                     !.page = IF k = "paged" THEN 1 ELSE 0,
                                     !.pages = IF k = "paged" THEN <<1>> ELSE <<>>])
    /\ UNCHANGED <<now, maxRequestPerSecond, timeout, nPages, _accessToken,
                   _accessTokenExpiry, _cooldown, tokSeq, sentThisSec, lastCall, left429>>

\* After `await this._updateToken()`: the Authorization header, then limit().
Attach(r) ==
    /\ req[r].pc = "tokenReady"
    /\ IF Dereferenceable(_accessToken)
       THEN /\ req' = [req EXCEPT ![r] =
                         AfterLimit([req[r] EXCEPT !.bearer = _accessToken.access_token])]
            /\ LimiterStep
       ELSE /\ req' = [req EXCEPT ![r] = Throw(req[r], "TypeError")]
            /\ LimiterSame
    /\ UNCHANGED <<now, maxRequestPerSecond, timeout, nPages, _accessToken,
                   _accessTokenExpiry, _cooldown, tokSeq, sentThisSec, lastCall, left429, calls>>

\* The limiter's timer fires: limit() returns.
Wake(r) ==
    /\ req[r].pc = "suspended"
    /\ now >= req[r].timer
    /\ req' = [req EXCEPT ![r].pc = "admitted", ![r].timer = 0]
    /\ UNCHANGED <<now, maxRequestPerSecond, timeout, nPages, _thisSecond,
                   _requestsThisSecond, _accessToken, _accessTokenExpiry, _cooldown,
                   tokSeq, sentThisSec, limitsThisSec, lastCall, left429, calls>>

\* After `await this._limiter.limit()`: the abort timer is armed and the
\* transport call is issued.
StartTransport(r) ==
    /\ req[r].pc = "admitted"
    /\ req' = [req EXCEPT ![r] =
                 [req[r] EXCEPT !.pc = "fetching", !.issued = now,
                                !.timer = now + TimerDelay(Remaining(StartOf(req[r]))),
                                !.sent = IF req[r].frame = "prot" THEN @ + 1 ELSE @,
                                !.gSent = IF req[r].frame = "grant" THEN @ + 1 ELSE @]]
    /\ sentThisSec' = sentThisSec + 1
    /\ lastCall' = now
    /\ UNCHANGED <<left429, calls>>
    /\ UNCHANGED <<now, maxRequestPerSecond, timeout, nPages, _thisSecond,
                   _requestsThisSecond, _accessToken, _accessTokenExpiry, _cooldown,
                   tokSeq, limitsThisSec>>

\* Mutant: every error status is taken for a rate limit.
TooManyRequests_AnyError(status) == status >= 400

\* response.status === 429
TooManyRequests(status) == status = 429

\* The status the transport answered frame q with is recorded.
Heard(q, status) ==
    [q EXCEPT !.last = IF q.frame = "prot" THEN status ELSE @,
              !.gLast = IF q.frame = "grant" THEN status ELSE @]

\* The transport answers 429: the elapsed-time check, then the backoff sleep.
RateLimited(r, status) ==
    LET q == Heard(req[r], status) IN
    /\ q.pc = "fetching"
    /\ TooManyRequests(status)
    /\ now - q.issued <= MaxLatency
    /\ left429 # 0
    /\ left429' = IF left429 = Unlimited THEN Unlimited ELSE left429 - 1
    /\ req' = [req EXCEPT ![r] =
                 IF OverTimeout(now - StartOf(q))
                 THEN Throw(q, "Timeout429")
                 ELSE [q EXCEPT !.pc = "sleeping",
                                !.timer = now + _cooldown, !.issued = 0,
                                !.retries = IF q.frame = "prot" THEN @ + 1 ELSE @,
                                !.gRetries = IF q.frame = "grant" THEN @ + 1 ELSE @]]
    /\ UNCHANGED <<now, maxRequestPerSecond, timeout, nPages, _thisSecond,
                   _requestsThisSecond, _accessToken, _accessTokenExpiry, _cooldown,
                   tokSeq, sentThisSec, limitsThisSec, lastCall, calls>>

\* The transport answers with another status: the cooldown is reset and the
\* body is read (`await response.json()`).
Answer(r, status, parses, e) ==
    LET q == Heard(req[r], status) IN
    /\ q.pc = "fetching"
    /\ now - q.issued <= MaxLatency
    /\ ~TooManyRequests(status)
    /\ (q.frame = "prot" /\ q.kind = "paged" /\ ~HttpOk(status) /\ parses)
           => q.page <= nPages + 1
    /\ req' = [req EXCEPT ![r] =
                 [q EXCEPT !.pc = "parsing", !.timer = 0, !.issued = 0,
                           !.status = status, !.parses = parses,
                           !.body = IF parses THEN ServerBody(q, status, e) ELSE Undefined]]
    /\ _cooldown' = StartCooldown
    /\ tokSeq' = IF q.frame = "grant" /\ HttpOk(status) /\ parses
                 THEN tokSeq + 1 ELSE tokSeq
    /\ UNCHANGED <<now, maxRequestPerSecond, timeout, nPages, _thisSecond,
                   _requestsThisSecond, _accessToken, _accessTokenExpiry,
                   sentThisSec, limitsThisSec, lastCall, left429, calls>>

\* fetch() rejects with an error that is no AbortError.
TransportError(r) ==
    /\ req[r].pc = "fetching"
    /\ req' = [req EXCEPT ![r] = Throw(req[r], "TransportError")]
    /\ UNCHANGED <<now, maxRequestPerSecond, timeout, nPages, _thisSecond,
                   _requestsThisSecond, _accessToken, _accessTokenExpiry, _cooldown,
                   tokSeq, sentThisSec, limitsThisSec, lastCall, left429, calls>>

\* The abort timer fires before the transport answers: AbortError.
Abort(r) ==
    /\ req[r].pc = "fetching"
    /\ now >= req[r].timer
    /\ req' = [req EXCEPT ![r] = Throw(req[r], "TimeoutAbort")]
    /\ UNCHANGED <<now, maxRequestPerSecond, timeout, nPages, _thisSecond,
                   _requestsThisSecond, _accessToken, _accessTokenExpiry, _cooldown,
                   tokSeq, sentThisSec, limitsThisSec, lastCall, left429, calls>>

\* The envelope _fetch returns for a status other than 429.
FetchResult(status, parses, body) ==
    IF parses THEN Envelope(TRUE, status, body)
    ELSE Envelope(HttpOk(status), status, Undefined)

\* !response.json
Falsy(json) == json.tag \in {"undefined", "null"}

\* Mutant: the page's items are put before the accumulated ones.
Concat_Prepend(items, json) == (IF json.tag = "array" THEN json.arr ELSE <<0>>) \o items

\* items.concat(response.json): an array's elements, or the value itself
\* (the element 0 stands for an object that is no item of the collection).
Concat(items, json) == items \o (IF json.tag = "array" THEN json.arr ELSE <<0>>)

\* Mutant: no page is taken for the empty one.
EmptyPage_Never(json) == FALSE

\* response.json.length === 0
EmptyPage(json) == json.tag = "array" /\ Len(json.arr) = 0

\* The rest of _updateToken after the grant request's _fetch has returned.
GrantReturns(r, q, res) ==
    /\ _accessToken' = res.json
    /\ IF Dereferenceable(res.json)
       THEN /\ _accessTokenExpiry' = ExpiryOf(res.json)
            /\ req' = [req EXCEPT ![r] = [q EXCEPT !.pc = "tokenReady", !.frame = "prot"]]
       ELSE /\ _accessTokenExpiry' = _accessTokenExpiry
            /\ req' = [req EXCEPT ![r] = Throw(q, "TypeError")]
    /\ LimiterSame

\* One round of getPaged's loop after `await this._fetch(addressI, {}, false)`.
PageReturns(r, q, res) ==
    /\ IF ~res.ok
       THEN /\ req' = [req EXCEPT ![r] =
                         Finish(q, Envelope(FALSE, res.status, ArrayJson(q.items)))]
            /\ LimiterSame
       ELSE IF Falsy(res.json) \/ EmptyPage(res.json)
       THEN /\ req' = [req EXCEPT ![r] =
                         Finish(q, Envelope(FALSE, 0, ArrayJson(q.items)))]
            /\ LimiterSame
       ELSE EnterFetch(r, [q EXCEPT !.onPage = Append(@, <<q.page, Len(q.items)>>),
                                    !.items = Concat(@, res.json),
                                    !.page = @ + 1,
                                    !.pages = Append(@, q.page + 1),
                                    !.startTime = now,
                                    !.retries = 0, !.sent = 0, !.last = 0])
    /\ UNCHANGED <<_accessToken, _accessTokenExpiry>>

\* get / post / put / patch / delete return what _fetch returns.
SingleReturns(r, q, res) ==
    /\ req' = [req EXCEPT ![r] = Finish(q, res)]
    /\ LimiterSame
    /\ UNCHANGED <<_accessToken, _accessTokenExpiry>>

\* `await response.json()` settles: _fetch returns to its caller.
Parsed(r) ==
    LET q0 == req[r]
        res == FetchResult(q0.status, q0.parses, q0.body)
        q1 == [q0 EXCEPT !.status = 0, !.parses = FALSE, !.body = Undefined]
        q == [q1 EXCEPT !.clean = @ /\ q0.status = 200 /\ q0.parses]
    IN
    /\ q0.pc = "parsing"
    /\ IF q0.frame = "grant" THEN GrantReturns(r, q1, res)
       ELSE IF q0.kind = "paged" THEN PageReturns(r, q, res)
       ELSE SingleReturns(r, q, res)
    /\ UNCHANGED <<now, maxRequestPerSecond, timeout, nPages, _cooldown,
                   tokSeq, sentThisSec, lastCall, left429, calls>>

\* this._cooldown *= this._cooldownGrowthFactor
GrownCooldown == _cooldown * CooldownGrowthFactor

\* Mutant: the retry of a grant request runs the token check as well.
Retry_Refreshing(r) ==
    /\ req[r].pc = "sleeping"
    /\ now >= req[r].timer
    /\ _cooldown' = GrownCooldown
    /\ EnterFetch(r, req[r])
    /\ UNCHANGED <<now, maxRequestPerSecond, timeout, nPages, _accessToken,
                   _accessTokenExpiry, tokSeq, sentThisSec, lastCall, left429, calls>>

\* The backoff sleep ends: the cooldown grows and _fetch calls itself.
Retry(r) ==
    LET q == req[r] IN
    /\ q.pc = "sleeping"
    /\ now >= q.timer
    /\ _cooldown' = GrownCooldown
    /\ IF q.frame = "grant"
       THEN /\ req' = [req EXCEPT ![r] = AfterLimit(q)]
            /\ LimiterStep
       ELSE EnterFetch(r, q)
    /\ UNCHANGED <<now, maxRequestPerSecond, timeout, nPages, _accessToken,
                   _accessTokenExpiry, tokSeq, sentThisSec, lastCall, left429, calls>>

\* ------------------------------------------------------------------- time
\* A continuation that runs without waiting for a timer or the network.
Immediate(q) == q.pc \in {"tokenReady", "admitted", "parsing"}
\* A pending timer, or a transport call in flight.
Waiting(q) == q.pc \in {"suspended", "sleeping", "fetching"}

\* Date.now() advances by one tick; timers fire when they are due.
Tick ==
    /\ \A r \in Req : ~Immediate(req[r]) /\ (Waiting(req[r]) => req[r].timer > now)
    /\ (\E r \in Req : Waiting(req[r])) \/ now < MaxTime
    /\ now' = now + 1
    /\ sentThisSec' = IF Sec(now + 1) # Sec(now) THEN 0 ELSE sentThisSec
    /\ limitsThisSec' = IF Sec(now + 1) # Sec(now) THEN 0 ELSE limitsThisSec
    /\ UNCHANGED <<maxRequestPerSecond, timeout, nPages, _thisSecond,
                   _requestsThisSecond, _accessToken, _accessTokenExpiry, _cooldown,
                   req, tokSeq, lastCall, left429, calls>>

\* The owner of the client lets go of a call's result.
Forget(r) ==
    /\ req[r].pc = "done"
    /\ req' = [req EXCEPT ![r] = IdleReq]
    /\ UNCHANGED <<now, maxRequestPerSecond, timeout, nPages, _thisSecond,
                   _requestsThisSecond, _accessToken, _accessTokenExpiry, _cooldown,
                   tokSeq, sentThisSec, limitsThisSec, lastCall, left429, calls>>

\* Sequential use of the single-request operations: one call at a time,
\* each awaited before the next.
Next ==
    \/ \E r \in Sequential : Call(r, "get")
    \/ \E r \in Sequential : Attach(r)
    \/ \E r \in Sequential : Wake(r)
    \/ \E r \in Sequential : StartTransport(r)
    \/ \E r \in Sequential, s \in Status : RateLimited(r, s)
    \/ \E r \in Sequential, s \in Status, p \in BOOLEAN, e \in ExpiresIn : Answer(r, s, p, e)
    \/ \E r \in Sequential : TransportError(r)
    \/ \E r \in Sequential : Abort(r)
    \/ \E r \in Sequential : Parsed(r)
    \/ \E r \in Sequential : Retry(r)
    \/ \E r \in Sequential : Forget(r)
    \/ Tick

Spec == Init /\ [][Next]_vars

\* getPaged on a client, awaited.
PagedNext ==
    \/ \E r \in Sequential : Call(r, "paged")
    \/ \E r \in Sequential : Attach(r)
    \/ \E r \in Sequential : Wake(r)
    \/ \E r \in Sequential : StartTransport(r)
    \/ \E r \in Sequential, s \in Status : RateLimited(r, s)
    \/ \E r \in Sequential, s \in Status, p \in BOOLEAN, e \in ExpiresIn : Answer(r, s, p, e)
    \/ \E r \in Sequential : TransportError(r)
    \/ \E r \in Sequential : Abort(r)
    \/ \E r \in Sequential : Parsed(r)
    \/ \E r \in Sequential : Retry(r)
    \/ Tick

PagedSpec == PagedInit /\ [][PagedNext]_vars

\* Two single requests in flight at once on one client (Promise.all).
ConcInit ==
    /\ Init
    /\ timeout = Infinity

ConcNext ==
    \/ \E r \in Req : Call(r, "get")
    \/ \E r \in Req : Attach(r)
    \/ \E r \in Req : Wake(r)
    \/ \E r \in Req : StartTransport(r)
    \/ \E r \in Req, s \in Status : RateLimited(r, s)
    \/ \E r \in Req, s \in Status, p \in BOOLEAN, e \in ExpiresIn : Answer(r, s, p, e)
    \/ \E r \in Req : TransportError(r)
    \/ \E r \in Req : Abort(r)
    \/ \E r \in Req : Parsed(r)
    \/ \E r \in Req : Retry(r)
    \/ Tick

ConcSpec == ConcInit /\ [][ConcNext]_vars

\* A client with a finite timeout, and a transport that may answer 429
\* every time.
LiveInit ==
    /\ now = StartTick
    /\ maxRequestPerSecond \in Rates
    /\ timeout \in FiniteTimeouts
    /\ nPages = 0
    /\ left429 = Unlimited
    /\ Constructed

LiveNext ==
    \/ \E r \in Sequential : Call(r, "get")
    \/ \E r \in Sequential : Attach(r)
    \/ \E r \in Sequential : Wake(r)
    \/ \E r \in Sequential : StartTransport(r)
    \/ \E r \in Sequential, s \in Status : RateLimited(r, s)
    \/ \E r \in Sequential, s \in Status, p \in BOOLEAN, e \in ExpiresIn : Answer(r, s, p, e)
    \/ \E r \in Sequential : TransportError(r)
    \/ \E r \in Sequential : Abort(r)
    \/ \E r \in Sequential : Parsed(r)
    \/ \E r \in Sequential : Retry(r)
    \/ \E r \in Sequential : Forget(r)
    \/ Tick

\* What the event loop guarantees: the clock advances, a due timer fires
\* (the limiter's, the backoff's, the abort timer), and the continuation of
\* a settled await runs.  Nothing is assumed of the caller or the transport.
Fairness ==
    /\ WF_vars(Tick)
    /\ \A r \in Sequential :
         /\ WF_vars(Attach(r))
         /\ WF_vars(Wake(r))
         /\ WF_vars(StartTransport(r))
         /\ WF_vars(Abort(r))
         /\ WF_vars(Parsed(r))
         /\ WF_vars(Retry(r))

LiveSpec == LiveInit /\ [][LiveNext]_vars /\ Fairness

\* ================================================================== claims
\* Slot r issues a transport call in this step.
Sends(r) == req[r].pc = "admitted" /\ req'[r].pc = "fetching"
\* Slot r calls limit() in this step.
Limits(r) == limitsThisSec' = limitsThisSec + 1 /\ req'[r] # req[r]
\* maxRequestPerSecond is a whole number N >= 1.
WholeRate == maxRequestPerSecond[2] = 1

\* C1: with maxRequestPerSecond = N >= 1, no wall-clock second contains
\* more than N transport calls, the second after a suspension included.
C1_AtMostNCallsPerSecond ==
    WholeRate => sentThisSec <= maxRequestPerSecond[1]

\* C2: of the limit() calls made in one wall-clock second that began with
\* another bucket, with maxRequestPerSecond = N >= 1 the first N return
\* without suspending and call N + 1 suspends until the start of the next
\* second; with maxRequestPerSecond < 1 every call after the first suspends
\* until the start of the next second.
C2_LimitSuspends ==
    [][\A r \in Req :
         (Limits(r) /\ (limitsThisSec = 0 => _thisSecond # Sec(now))) =>
            LET k == limitsThisSec'
                untilNextSecond ==
                    /\ req'[r].pc = "suspended"
                    /\ req'[r].timer = (Sec(now) + 1) * TicksPerSecond
            IN  IF WholeRate
                THEN /\ k <= maxRequestPerSecond[1] => req'[r].pc = "admitted"
                     /\ k = maxRequestPerSecond[1] + 1 => untilNextSecond
                ELSE /\ k = 1 => req'[r].pc = "admitted"
                     /\ k > 1 => untilNextSecond]_vars

\* C2's case: with maxRequestPerSecond = 2 the third limit() call of a
\* second is suspended.
C2_Witness ==
    \E r \in Req :
        /\ maxRequestPerSecond = <<2, 1>>
        /\ limitsThisSec = 3
        /\ req[r].pc = "suspended"

\* C3: with maxRequestPerSecond = 1/k, k > 1, two consecutive transport
\* calls of one client are at least k seconds apart.
C3_FractionalRateSpacing ==
    [][\A r \in Req :
         (Sends(r) /\ ~WholeRate /\ lastCall # -1) =>
            now - lastCall >= maxRequestPerSecond[2] * TicksPerSecond]_vars

\* Slot r runs the freshness check of _updateToken in this step: at the
\* entry of a protected _fetch (a call, a retry after 429, the next page).
ChecksToken(r) ==
    \/ req[r].pc = "idle" /\ req'[r].pc # "idle"
    \/ req[r].pc = "sleeping" /\ req[r].frame = "prot" /\ req'[r].pc # "sleeping"
    \/ req[r].pc = "parsing" /\ req[r].frame = "prot" /\ req'[r].pc \notin {"parsing", "done"}
\* That check starts a grant request (one logical POST /oauth/token).
IssuesGrant(r) == req'[r].frame = "grant" /\ req'[r].pc \in {"admitted", "suspended"}
\* No token is cached.
NoTokenCached == ~Dereferenceable(_accessToken)
\* The cached expiry is within 60 seconds of now.
ExpiryWithinMargin ==
    _accessTokenExpiry # NaN /\ _accessTokenExpiry <= now + RefreshMargin

\* C4: at every protected attempt _updateToken issues no grant request when
\* the cached expiry is more than 60 s after now, and one grant request
\* when no token is cached or the cached expiry is within 60 s of now.
C4_GrantIffNeeded ==
    [][\A r \in Req :
         ChecksToken(r) =>
            /\ Fresh => ~IssuesGrant(r)
            /\ (NoTokenCached \/ ExpiryWithinMargin) => IssuesGrant(r)]_vars

\* C5: when the grant fails the protected transport call is never issued:
\* every protected transport call carries a bearer token obtained from a
\* successful grant, and the cached token is then a granted token, nothing
\* partial.
C5_NoCallWithoutGrantedToken ==
    \A r \in Req :
        (req[r].pc = "fetching" /\ req[r].frame = "prot") =>
            /\ req[r].bearer >= 1
            /\ _accessToken.tag = "token"

\* factor^n
RECURSIVE Power(_, _)
Power(factor, n) == IF n = 0 THEN 1 ELSE factor * Power(factor, n - 1)

\* Slot r is answered 429 in this step and starts its backoff sleep.
StartsSleep(r) == req[r].pc = "fetching" /\ req'[r].pc = "sleeping"
\* Slot r is answered with another status in this step.
Answered(r) == req[r].pc = "fetching" /\ req'[r].pc = "parsing"

\* C6: the n-th consecutive 429 of a logical request is followed by a sleep
\* of base * factor^(n-1) (1500 ms, 3000 ms, ...), and the cooldown equals
\* base again after a response that is not 429.
C6_BackoffSchedule ==
    [][\A r \in Req :
         /\ StartsSleep(r) =>
               req'[r].timer - now =
                   StartCooldown * Power(CooldownGrowthFactor, RetriesOf(req'[r]) - 1)
         /\ Answered(r) => _cooldown' = StartCooldown]_vars

\* Slot r's call has been made and has not ended.
InFlight(r) == req[r].pc \notin {"idle", "done"}

\* C7: with a finite timeout, a logical request whose elapsed time exceeds
\* the timeout eventually ends; a 429 answered after the timeout is never
\* followed by another sleep but by a Timeout error; and a request that has
\* ended makes no further attempt.
C7_TimeoutEndsRetries ==
    /\ \A r \in Sequential :
         (InFlight(r) /\ now - req[r].startTime > timeout) ~> (req[r].pc = "done")
    /\ [][\A r \in Sequential :
            /\ (req[r].pc = "fetching" /\ now - StartOf(req[r]) > timeout) =>
                  /\ ~StartsSleep(r)
                  /\ req'[r].pc = "done" =>
                        req'[r].result.err \in {"Timeout429", "TimeoutAbort", "TransportError"}
            /\ req[r].pc = "done" => ~Sends(r)]_vars

\* C7's case: a request that was still answered 429 after its timeout has
\* ended with the Timeout error.
C7_Witness ==
    \E r \in Sequential :
        req[r].pc = "done" /\ req[r].result.err = "Timeout429"

\* C8: only a 429 answer is followed by another transport call of the same
\* logical request; after any other status (JSON or not) _fetch returns the
\* envelope of that answer, and after a transport error the call ends with
\* the error.
C8_OnlyRetryAfter429 ==
    [][\A r \in Req :
         /\ (Sends(r) /\ SentOf(req[r]) > 0) => LastOf(req[r]) = 429
         /\ (req[r].pc = "parsing" /\ req[r].frame = "prot" /\ req[r].kind = "get"
                /\ req'[r] # req[r]) =>
               /\ req'[r].pc = "done"
               /\ req'[r].result.t = "resp"
               /\ req'[r].result.status = req[r].status
         /\ (req[r].pc = "fetching" /\ req'[r].pc \notin {"fetching", "sleeping", "parsing"}) =>
               /\ req'[r].pc = "done"
               /\ req'[r].result.t = "error"]_vars

\* C8's case: a protected request answered 429 and then 404 on its second
\* transport call.
C8_Witness ==
    \E r \in Req :
        /\ req[r].pc = "parsing" /\ req[r].frame = "prot"
        /\ req[r].sent = 2 /\ req[r].retries = 1 /\ req[r].status = 404

\* The envelope has a json field.
HasJson(res) == res.json.tag # "undefined"

\* C9: an envelope returned by a single request has ok == true only with a
\* JSON body and a 2xx status, and ok == false only with a non-2xx status
\* or a body that is not JSON.
C9_EnvelopeOk ==
    \A r \in Req :
        (req[r].pc = "done" /\ req[r].kind = "get" /\ req[r].result.t = "resp") =>
            LET res == req[r].result IN
            /\ res.ok => (HasJson(res) /\ HttpOk(res.status))
            /\ ~res.ok => (~HttpOk(res.status) \/ ~HasJson(res))

\* The items of pages 1..n, in page order.
RECURSIVE AllItems(_, _)
AllItems(n, total) ==
    IF n = 0 THEN <<>> ELSE AllItems(n - 1, total) \o PageItems(n, total)

\* C10: getPaged against pages 1..n that are non-empty and an empty page
\* n + 1 requests the pages 1, ..., n + 1 in that order and stops, returns
\* the items of pages 1..n in page order, and has invoked onPage once per
\* non-empty page, in page order, each time before that page's items were
\* appended.
C10_PagedConcatenation ==
    \A r \in Req :
        (req[r].pc = "done" /\ req[r].kind = "paged" /\ req[r].clean
            /\ req[r].result.t = "resp") =>
            /\ req[r].pages = [p \in 1..(nPages + 1) |-> p]
            /\ req[r].result.json = ArrayJson(AllItems(nPages, nPages))
            /\ req[r].onPage =
                 [p \in 1..nPages |-> <<p, Len(AllItems(p - 1, nPages))>>]

\* C10's case: getPaged has read two non-empty pages and the empty third.
C10_Witness ==
    \E r \in Req :
        /\ req[r].pc = "done" /\ req[r].kind = "paged" /\ req[r].clean
        /\ req[r].result.t = "resp"
        /\ nPages = 2
        /\ Len(req[r].pages) = 3

\* Slot r's getPaged holds the answer to its current page, the body being
\* read, and the status is an error status other than 429.
FailingPage(r) ==
    /\ req[r].pc = "parsing" /\ req[r].frame = "prot" /\ req[r].kind = "paged"
    /\ ~HttpOk(req[r].status)

\* C11: when page p of getPaged is answered with a non-429 error status,
\* with or without a JSON body, getPaged ends at once without requesting
\* page p + 1 and returns ok == false, that status, and as json the items
\* accumulated from pages 1..p-1.
C11_FailingPageEndsPaging ==
    [][\A r \in Req :
         (FailingPage(r) /\ req'[r] # req[r]) =>
            /\ req'[r].pc = "done"
            /\ req'[r].pages = req[r].pages
            /\ req'[r].result = Envelope(FALSE, req[r].status, ArrayJson(req[r].items))]_vars

\* An abort timer armed by slot r fired before the transport answered, or
\* the elapsed-time check after a 429 failed.
TimedOut(r) ==
    req[r].pc = "done" /\ req[r].result.err \in {"TimeoutAbort", "Timeout429"}

\* C12: with the default configuration (timeout Infinity) no logical
\* request ever ends with a Timeout error: the abort timer never fires
\* before the transport answers, whatever the latency and the number of
\* 429 answers.
C12_DefaultTimeoutUnbounded ==
    timeout = Infinity => \A r \in Req : ~TimedOut(r)

\* Slot r's await of _updateToken settles in this step: the freshness check
\* passed, or the grant request it started has returned.
TokenSettles(r) == req[r].pc # "tokenReady" /\ req'[r].pc = "tokenReady"

\* C13: every protected transport call carries the access_token of the
\* token cached at that moment; an attempt reaches its Authorization header
\* either because the cached expiry was more than 60 s ahead at its
\* freshness check, or after a grant request that replaced the cached token
\* by the granted one and the expiry by now + expires_in seconds; and every
\* retry after a 429 runs the check again.
C13_BearerIsFreshCachedToken ==
    [][\A r \in Req :
         /\ (Sends(r) /\ req[r].frame = "prot") =>
               /\ _accessToken.tag = "token"
               /\ req[r].bearer = _accessToken.access_token
         /\ TokenSettles(r) =>
               IF req[r].frame = "grant"
               THEN /\ req[r].pc = "parsing"
                    /\ _accessToken' = req[r].body
                    /\ _accessToken'.tag = "token"
                    /\ _accessTokenExpiry' = now + _accessToken'.expires_in * TicksPerSecond
               ELSE ChecksToken(r) /\ Fresh
         /\ (req[r].pc = "sleeping" /\ req[r].frame = "prot" /\ req'[r] # req[r]) =>
               \/ Fresh /\ TokenSettles(r)
               \/ ~Fresh /\ IssuesGrant(r)]_vars

\* The sleep that would follow if the transport call of frame q were
\* answered 429 now: setTimeout(resolve, this._cooldown).
NextSleep(q) == _cooldown

\* C14: the cooldown belongs to the logical request: while a transport
\* call of a logical request that has had n consecutive 429 answers is in
\* flight, a 429 would be followed by a sleep of base * factor^n, whatever
\* earlier logical requests of the client ended with and whatever token
\* renewals happened between the attempts.
C14_CooldownScopedToRequest ==
    \A r \in Sequential :
        req[r].pc = "fetching" =>
            NextSleep(req[r]) =
                StartCooldown * Power(CooldownGrowthFactor, RetriesOf(req[r]))

\* Slot a takes a step that belongs to a transport answer it received: the
\* answer itself, or the end of the backoff sleep that follows a 429.
HandlesAnswer(a) ==
    /\ req[a].pc \in {"fetching", "sleeping"}
    /\ req'[a].pc \notin {req[a].pc, "done"}

\* C15: with two logical requests in flight on one client, an answer
\* received by request a (429 or not) never changes the duration of the
\* next backoff sleep of request b.
C15_RetryStateNotShared ==
    [][\A a, b \in Req :
         (a # b /\ HandlesAnswer(a) /\ InFlight(b) /\ req'[b] = req[b]) =>
            NextSleep(req[b])' = NextSleep(req[b])]_vars

\* The same logical request is running before and after this step of slot
\* r: the same _fetch call chain (the first attempt and its retries).
SameLogicalRequest(r) ==
    /\ InFlight(r) /\ req'[r].pc \notin {"idle", "done"}
    /\ req'[r].page = req[r].page

\* C16: with a finite timeout the deadline of a logical request is
\* cumulative: the start time recorded at the first attempt is the one every
\* retry uses, the abort timer of an attempt is armed with the timeout minus
\* the time elapsed since that start, and a 429 heard more than the timeout
\* after that start ends the request instead of starting a sleep.
C16_CumulativeDeadline ==
    [][\A r \in Req :
         timeout # Infinity =>
            /\ SameLogicalRequest(r) => req'[r].startTime = req[r].startTime
            /\ (SameLogicalRequest(r) /\ req[r].frame = "grant" /\ req'[r].frame = "grant") =>
                  req'[r].gStart = req[r].gStart
            /\ Sends(r) =>
                  LET start == IF req[r].frame = "grant" THEN req[r].gStart
                               ELSE req[r].startTime
                      left == timeout - (now - start)
                  IN  req'[r].timer = IF left >= 1 THEN now + left ELSE now
            /\ (req[r].pc = "fetching" /\ req'[r].pc = "sleeping") =>
                  LET start == IF req[r].frame = "grant" THEN req[r].gStart
                               ELSE req[r].startTime
                  IN  now - start <= timeout]_vars

\* C16's case: the second attempt of a logical request is in flight and its
\* abort timer is due less than the full timeout after it was issued.
C16_Witness ==
    \E r \in Req :
        /\ timeout # Infinity
        /\ req[r].pc = "fetching" /\ SentOf(req[r]) = 2 /\ RetriesOf(req[r]) = 1
        /\ req[r].timer = StartOf(req[r]) + timeout
        /\ req[r].timer < req[r].issued + timeout

\* Slot r's call of limit() returns in this step: at once, or when the
\* limiter's timer has fired.
ReturnsFromLimit(r) ==
    \/ Limits(r) /\ req'[r].pc = "admitted"
    \/ req[r].pc = "suspended" /\ now >= req[r].timer /\ req'[r].pc = "admitted"

\* C17: every transport call, the grant POST and every retry after a 429
\* included, is issued by a frame whose own call of limit() has returned
\* and has not been used for another call; a frame waits in limit() only
\* after calling it; and no transport call is counted that was not issued
\* this way.  (So the calls issued never outnumber the limit() calls that
\* have returned.)
C17_EveryCallThroughLimiter ==
    [][/\ \A r \in Req :
            /\ (req'[r].pc = "fetching" /\ req[r].pc # "fetching") => req[r].pc = "admitted"
            /\ (req'[r].pc = "admitted" /\ req[r].pc # "admitted") => ReturnsFromLimit(r)
            /\ (req'[r].pc = "suspended" /\ req[r].pc # "suspended") => Limits(r)
            /\ (InFlight(r) /\ SentOf(req'[r]) > SentOf(req[r])
                  /\ req'[r].frame = req[r].frame) =>
                  Sends(r) /\ SentOf(req'[r]) = SentOf(req[r]) + 1
       /\ (sentThisSec' > sentThisSec \/ lastCall' # lastCall) => \E r \in Req : Sends(r)]_vars

\* C17's case: the retry of a grant request after a 429 is on the wire, in
\* a second in which limit() was called for it.
C17_Witness ==
    \E r \in Req :
        /\ req[r].pc = "fetching" /\ req[r].frame = "grant"
        /\ req[r].gSent = 2 /\ req[r].gRetries = 1
        /\ limitsThisSec >= 1 /\ sentThisSec >= 1

\* Slot r is processing a grant request (its first attempt or a retry).
InGrant(r) == InFlight(r) /\ req[r].frame = "grant"

\* C18: a grant request never triggers another token refresh and never
\* gets an Authorization header: while slot r processes a grant request,
\* no step of it starts a grant request anew or runs the freshness check
\* (the grant's start, attempts and 429 count go on over its retries), the
\* header is written by protected frames only, and the grant frame is left
\* only by the grant's return or throw.
C18_GrantNeverRefreshes ==
    [][\A r \in Req :
         /\ (InGrant(r) /\ req'[r] # req[r]) =>
               /\ ~ChecksToken(r)
               /\ req'[r].frame = "grant" =>
                     \/ req'[r].pc = "done"
                     \/ /\ req'[r].gStart = req[r].gStart
                        /\ req'[r].gSent >= req[r].gSent
                        /\ req'[r].gRetries >= req[r].gRetries
                        /\ req'[r].bearer = req[r].bearer
               /\ req'[r].frame = "prot" =>
                     req[r].pc = "parsing" /\ req'[r].pc = "tokenReady"
         /\ (req'[r].bearer # req[r].bearer /\ req'[r].pc \notin {"idle", "done"}) =>
               req[r].frame = "prot" /\ req[r].pc \in {"tokenReady", "idle"}]_vars

\* C18's case: a grant request answered 429 is retried while the cached
\* token is still not fresh.
C18_Witness ==
    \E r \in Req :
        /\ InGrant(r) /\ req[r].pc \in {"admitted", "suspended"}
        /\ req[r].gRetries = 1 /\ req[r].gSent = 1
        /\ ~Fresh

\* Slot r's getPaged holds an ok answer that ends the collection: no body
\* (a 2xx answer that is not JSON) or an empty array.
EndOfCollection(r) ==
    /\ req[r].pc = "parsing" /\ req[r].frame = "prot" /\ req[r].kind = "paged"
    /\ \/ ~req[r].parses /\ HttpOk(req[r].status)
       \/ req[r].parses /\ req[r].body.tag = "array" /\ Len(req[r].body.arr) = 0

\* C19: at the end of the collection getPaged returns ok == false, no
\* status and as json all the items accumulated; and whatever path it
\* returns by, ok is false.
C19_PagedNeverOk ==
    [][\A r \in Req :
         /\ (EndOfCollection(r) /\ req'[r] # req[r]) =>
               /\ req'[r].pc = "done"
               /\ req'[r].result.t = "resp"
               /\ ~req'[r].result.ok
               /\ req'[r].result.status = 0
               /\ req'[r].result.json = ArrayJson(req[r].items)
         /\ (req[r].kind = "paged" /\ req'[r].pc = "done" /\ req'[r].result.t = "resp") =>
               ~req'[r].result.ok]_vars

\* C19's case: getPaged has returned at the end of a collection of two
\* pages, with the three items of these pages.
C19_Witness ==
    \E r \in Req :
        /\ req[r].pc = "done" /\ req[r].kind = "paged"
        /\ req[r].result.t = "resp" /\ req[r].result.status = 0
        /\ Len(req[r].result.json.arr) = 3

\* C20: whenever the cached expiry passes the freshness check, the cached
\* token is a granted token (never null, undefined or the body of a failed
\* grant) and the expiry is the one its grant set: the grant's time plus
\* expires_in seconds, a time not after now.
C20_TokenMatchesExpiry ==
    Fresh =>
        /\ _accessToken.tag = "token"
        /\ _accessTokenExpiry - _accessToken.expires_in * TicksPerSecond <= now
        /\ _accessTokenExpiry - _accessToken.expires_in * TicksPerSecond >= StartTick
====
